---- MODULE Spec2Model ----
(***************************************************************************)
(* Model of package thyme (data.go): the Window predicates, the title      *)
(* heuristic Window.Info, Winfo.Print and Snapshot.Print.                  *)
(*                                                                         *)
(* A Go string is modelled as the sequence of its bytes.  An ASCII byte is *)
(* written as the one-character string of that character; the three bytes *)
(* of the UTF-8 encoding of U+200E (left-to-right mark) are written        *)
(* "xE2", "x80", "x8E".  Indexes returned by Index and LastIndex are       *)
(* 0-based as in Go, -1 meaning "not found".                               *)
(***************************************************************************)
EXTENDS Integers, Sequences, FiniteSets, TLC

(***************************************************************************)
(* Bounds of the model.                                                    *)
(***************************************************************************)
MaxChunks == 5

MaxDesktop == 3

MaxWindows == 3

MaxVisible == 2

(***************************************************************************)
(* String constants of data.go.                                            *)
(***************************************************************************)
defaultWindowTitleSeparator == <<" ", "-", " ">>

microsoftEdgeWindowTitleSeparator == <<"xE2", "x80", "x8E", "-", " ">>

GoogleChrome == <<"G", "o", "o", "g", "l", "e", " ", "C", "h", "r", "o", "m", "e">>

Slack == <<"S", "l", "a", "c", "k">>

EmptyString == << >>

(***************************************************************************)
(* package strings, on byte sequences.                                     *)
(***************************************************************************)

\* s[lo:hi] with Go's 0-based, half-open bounds.
Slice(s, lo, hi) == SubSeq(s, lo + 1, hi)

\* strings.HasPrefix(s[i:], sep)
HasPrefixAt(s, i, sep) ==
    /\ i + Len(sep) <= Len(s)
    /\ Slice(s, i, i + Len(sep)) = sep

RECURSIVE IndexFrom(_, _, _)
IndexFrom(s, sep, i) ==
    IF i + Len(sep) > Len(s) THEN -1
    ELSE IF HasPrefixAt(s, i, sep) THEN i
    ELSE IndexFrom(s, sep, i + 1)

\* strings.Index: the first occurrence of sep in s, or -1.
Index(s, sep) == IndexFrom(s, sep, 0)

RECURSIVE LastIndexFrom(_, _, _)
LastIndexFrom(s, sep, i) ==
    IF i < 0 THEN -1
    ELSE IF HasPrefixAt(s, i, sep) THEN i
    ELSE LastIndexFrom(s, sep, i - 1)

\* strings.LastIndex: the last occurrence of sep in s, or -1.
LastIndex(s, sep) == LastIndexFrom(s, sep, Len(s) - Len(sep))

\* strings.Contains
Contains(s, sep) == Index(s, sep) >= 0

\* strings.Split for a non-empty sep: cut at each occurrence found scanning
\* from the left, the scan resuming after the occurrence just consumed.
RECURSIVE Split(_, _)
Split(s, sep) ==
    LET m == Index(s, sep) IN
    IF m < 0 THEN << s >>
    ELSE << Slice(s, 0, m) >> \o Split(Slice(s, m + Len(sep), Len(s)), sep)

\* strings.Join
RECURSIVE Join(_, _)
Join(elems, sep) ==
    IF Len(elems) = 0 THEN EmptyString
    ELSE IF Len(elems) = 1 THEN elems[1]
    ELSE elems[1] \o sep \o Join(Tail(elems), sep)

\* unicode.IsSpace on the runes the model's byte sequences decode to: the
\* ASCII white space; U+200E, the only non-ASCII rune, is not white space,
\* so none of its three bytes is trimmed.
IsSpace(c) == c \in {" ", "\t", "\n", "\r"}

RECURSIVE TrimLeft(_)
TrimLeft(s) ==
    IF Len(s) > 0 /\ IsSpace(s[1]) THEN TrimLeft(Tail(s)) ELSE s

RECURSIVE TrimRight(_)
TrimRight(s) ==
    IF Len(s) > 0 /\ IsSpace(s[Len(s)]) THEN TrimRight(Slice(s, 0, Len(s) - 1)) ELSE s

\* strings.TrimSpace
TrimSpace(s) == TrimRight(TrimLeft(s))

(***************************************************************************)
(* type Winfo                                                              *)
(***************************************************************************)
Winfo(app, subApp, title) == [App |-> app, SubApp |-> subApp, Title |-> title]

(***************************************************************************)
(* func (w *Window) Info() *Winfo, on the window's Name.                   *)
(***************************************************************************)

\* "Special Cases": the test of data.go:123-126.
IsChromeName(name) ==
    LET fields == Split(name, defaultWindowTitleSeparator) IN
    /\ Len(fields) > 1
    /\ TrimSpace(fields[Len(fields)]) = GoogleChrome

\* The Winfo returned at data.go:127-131.
ChromeInfo(name) ==
    LET fields == Split(name, defaultWindowTitleSeparator) IN
    Winfo(GoogleChrome,
          TrimSpace(fields[Len(fields) - 1]),
          Join(SubSeq(fields, 1, Len(fields) - 2), defaultWindowTitleSeparator))

\* EdgeInfo cutting at the first occurrence of the separator.
EdgeInfoAtFirst(name) ==
    LET beforeSep == Index(name, microsoftEdgeWindowTitleSeparator)
        afterSep  == beforeSep + Len(microsoftEdgeWindowTitleSeparator)
    IN Winfo(TrimSpace(Slice(name, afterSep, Len(name))),
             EmptyString,
             TrimSpace(Slice(name, 0, beforeSep)))

\* "App Name Last" for the Microsoft Edge separator, data.go:136-142.
EdgeInfo(name) ==
    LET beforeSep == LastIndex(name, microsoftEdgeWindowTitleSeparator)
        afterSep  == beforeSep + Len(microsoftEdgeWindowTitleSeparator)
    IN Winfo(TrimSpace(Slice(name, afterSep, Len(name))),
             EmptyString,
             TrimSpace(Slice(name, 0, beforeSep)))

\* IsAppNameFirst comparing the trimmed leading text.
IsAppNameFirstTrimmed(name, beforeSep) == TrimSpace(Slice(name, 0, beforeSep)) = Slack

\* The "App Name First" test, data.go:148.
IsAppNameFirst(name, beforeSep) == Slice(name, 0, beforeSep) = Slack

\* "App Name First", data.go:149-153.
AppNameFirstInfo(name, beforeSep) ==
    LET afterSep == beforeSep + Len(defaultWindowTitleSeparator)
    IN Winfo(TrimSpace(Slice(name, 0, beforeSep)),
             EmptyString,
             TrimSpace(Slice(name, afterSep, Len(name))))

\* AppNameLastInfo cutting at the first occurrence of the separator.
AppNameLastInfoAtFirst(name) ==
    LET beforeSep == Index(name, defaultWindowTitleSeparator)
        afterSep  == beforeSep + Len(defaultWindowTitleSeparator)
    IN Winfo(TrimSpace(Slice(name, afterSep, Len(name))),
             EmptyString,
             TrimSpace(Slice(name, 0, beforeSep)))

\* AppNameLastInfo without the TrimSpace of App.
AppNameLastInfoUntrimmed(name) ==
    LET beforeSep == LastIndex(name, defaultWindowTitleSeparator)
        afterSep  == beforeSep + Len(defaultWindowTitleSeparator)
    IN Winfo(Slice(name, afterSep, Len(name)),
             EmptyString,
             TrimSpace(Slice(name, 0, beforeSep)))

\* "App Name Last" for the default separator, data.go:157-162.
AppNameLastInfo(name) ==
    LET beforeSep == LastIndex(name, defaultWindowTitleSeparator)
        afterSep  == beforeSep + Len(defaultWindowTitleSeparator)
    IN Winfo(TrimSpace(Slice(name, afterSep, Len(name))),
             EmptyString,
             TrimSpace(Slice(name, 0, beforeSep)))

\* NoSeparatorInfo trimming the name as the other cases do.
NoSeparatorInfoTrimmed(name) == Winfo(EmptyString, EmptyString, TrimSpace(name))

\* "No Application name separator", data.go:166-168.
NoSeparatorInfo(name) == Winfo(EmptyString, EmptyString, name)

\* Info with the Microsoft Edge case tried before the Google Chrome case.
InfoEdgeBeforeChrome(name) ==
    IF Contains(name, microsoftEdgeWindowTitleSeparator) THEN EdgeInfo(name)
    ELSE IF IsChromeName(name) THEN ChromeInfo(name)
    ELSE LET beforeSep == Index(name, defaultWindowTitleSeparator) IN
         IF beforeSep > -1
         THEN IF IsAppNameFirst(name, beforeSep)
              THEN AppNameFirstInfo(name, beforeSep)
              ELSE AppNameLastInfo(name)
         ELSE NoSeparatorInfo(name)

\* func (w *Window) Info() *Winfo, data.go:121-169.
Info(name) ==
    IF IsChromeName(name) THEN ChromeInfo(name)
    ELSE IF Contains(name, microsoftEdgeWindowTitleSeparator) THEN EdgeInfo(name)
    ELSE LET beforeSep == Index(name, defaultWindowTitleSeparator) IN
         IF beforeSep > -1
         THEN IF IsAppNameFirst(name, beforeSep)
              THEN AppNameFirstInfo(name, beforeSep)
              ELSE AppNameLastInfo(name)
         ELSE NoSeparatorInfo(name)

(***************************************************************************)
(* type Window: [ID, Desktop, Name].                                       *)
(***************************************************************************)

\* IsOnDesktop without the sticky case.
IsOnOwnDesktop(w, desktop) == w.Desktop = desktop

\* func (w *Window) IsSticky() bool, data.go:99-101.
IsSticky(w) == w.Desktop = -1

\* func (w *Window) IsOnDesktop(desktop int64) bool, data.go:105-107.
IsOnDesktop(w, desktop) == IsSticky(w) \/ w.Desktop = desktop

(***************************************************************************)
(* func (w Winfo) Print() string: fmt.Sprintf("[%s|%s|%s]", ...).          *)
(***************************************************************************)
WinfoPrint(w) ==
    << "[" >> \o w.App \o << "|" >> \o w.SubApp \o << "|" >> \o w.Title \o << "]" >>

(***************************************************************************)
(* time.Time.Format with the layout "Mon Jan 2 15:04:05 -0700 MST 2006",   *)
(* on a time given by its fields in its location: Weekday 0..6 (Sunday is  *)
(* 0), Month 1..12, Day, Hour, Minute, Second, Year 0..9999, Offset (the   *)
(* zone's seconds east of UTC) and Zone (the zone's abbreviation).         *)
(***************************************************************************)
Digit(d) == << "0", "1", "2", "3", "4", "5", "6", "7", "8", "9" >>[d + 1]

RECURSIVE Itoa(_)
Itoa(n) == IF n < 10 THEN << Digit(n) >> ELSE Itoa(n \div 10) \o << Digit(n % 10) >>

RECURSIVE ZeroPad(_, _)
ZeroPad(digits, width) ==
    IF Len(digits) >= width THEN digits ELSE ZeroPad(<< "0" >> \o digits, width)

\* appendInt(b, n, width) for n >= 0
AppendInt(n, width) == ZeroPad(Itoa(n), width)

ShortDayNames ==
    << << "S", "u", "n" >>, << "M", "o", "n" >>, << "T", "u", "e" >>,
       << "W", "e", "d" >>, << "T", "h", "u" >>, << "F", "r", "i" >>,
       << "S", "a", "t" >> >>

ShortMonthNames ==
    << << "J", "a", "n" >>, << "F", "e", "b" >>, << "M", "a", "r" >>,
       << "A", "p", "r" >>, << "M", "a", "y" >>, << "J", "u", "n" >>,
       << "J", "u", "l" >>, << "A", "u", "g" >>, << "S", "e", "p" >>,
       << "O", "c", "t" >>, << "N", "o", "v" >>, << "D", "e", "c" >> >>

\* stdNumTZ, "-0700": the sign, then hours and minutes of the offset.
FormatOffset(offset) ==
    LET zone    == IF offset < 0 THEN 0 - ((0 - offset) \div 60) ELSE offset \div 60
        minutes == IF zone < 0 THEN 0 - zone ELSE zone
    IN (IF zone < 0 THEN << "-" >> ELSE << "+" >>)
           \o AppendInt(minutes \div 60, 2) \o AppendInt(minutes % 60, 2)

TimeFormat(t) ==
    ShortDayNames[t.Weekday + 1] \o << " " >>
        \o ShortMonthNames[t.Month] \o << " " >>
        \o Itoa(t.Day) \o << " " >>
        \o AppendInt(t.Hour, 2) \o << ":" >> \o AppendInt(t.Minute, 2)
        \o << ":" >> \o AppendInt(t.Second, 2) \o << " " >>
        \o FormatOffset(t.Offset) \o << " " >>
        \o t.Zone \o << " " >>
        \o AppendInt(t.Year, 4)

(***************************************************************************)
(* func (s Snapshot) Print() string.  A *Window of s.Windows is modelled   *)
(* by its position in s.Windows; the local `active` is the empty sequence  *)
(* for nil and a one-element sequence otherwise.                           *)
(***************************************************************************)

\* The locals of Print before the loop, data.go:23-25.
NoBuckets == [active |-> << >>, visible |-> << >>, other |-> << >>]

\* `for _, v := range s.Visible { if w.ID == v {...} }` from position j on:
\* TRUE when the loop finds w.ID and leaves by `continue s_Windows`.
RECURSIVE FoundInVisible(_, _, _)
FoundInVisible(s, w, j) ==
    IF j > Len(s.Visible) THEN FALSE
    ELSE IF w.ID = s.Visible[j] THEN TRUE
    ELSE FoundInVisible(s, w, j + 1)

\* ClassifyWindow leaving the inner loop by `break`: the window is appended
\* to other as well.
ClassifyWindowBreak(s, i, b) ==
    LET w == s.Windows[i] IN
    IF w.ID = s.Active THEN [b EXCEPT !.active = << i >>]
    ELSE IF FoundInVisible(s, w, 1)
         THEN [b EXCEPT !.visible = Append(@, i), !.other = Append(@, i)]
         ELSE [b EXCEPT !.other = Append(@, i)]

\* ClassifyWindow keeping the first active window: a later window with the
\* active ID is classified as any other window.
ClassifyWindowKeepFirst(s, i, b) ==
    LET w == s.Windows[i] IN
    IF w.ID = s.Active /\ b.active = << >> THEN [b EXCEPT !.active = << i >>]
    ELSE IF FoundInVisible(s, w, 1) THEN [b EXCEPT !.visible = Append(@, i)]
    ELSE [b EXCEPT !.other = Append(@, i)]

\* One iteration of the loop s_Windows on the window at position i,
\* data.go:27-38.
ClassifyWindow(s, i, b) ==
    LET w == s.Windows[i] IN
    IF w.ID = s.Active THEN [b EXCEPT !.active = << i >>]
    ELSE IF FoundInVisible(s, w, 1) THEN [b EXCEPT !.visible = Append(@, i)]
    ELSE [b EXCEPT !.other = Append(@, i)]

\* The loop s_Windows from position i on, data.go:26-39.
RECURSIVE Classify(_, _, _)
Classify(s, i, b) ==
    IF i > Len(s.Windows) THEN b
    ELSE Classify(s, i + 1, ClassifyWindow(s, i, b))

\* RenderEntries writing the ", " between the entries only.
RECURSIVE RenderEntriesJoined(_, _)
RenderEntriesJoined(s, ws) ==
    IF Len(ws) = 0 THEN EmptyString
    ELSE IF Len(ws) = 1 THEN WinfoPrint(Info(s.Windows[ws[1]].Name))
    ELSE WinfoPrint(Info(s.Windows[ws[1]].Name)) \o << ",", " " >>
             \o RenderEntriesJoined(s, Tail(ws))

\* `for _, v := range ws { fmt.Fprintf(&b, "%s, ", v.Info().Print()) }`,
\* data.go:47-49 and 54-56.
RECURSIVE RenderEntries(_, _)
RenderEntries(s, ws) ==
    IF Len(ws) = 0 THEN EmptyString
    ELSE WinfoPrint(Info(s.Windows[ws[1]].Name)) \o << ",", " " >>
             \o RenderEntries(s, Tail(ws))

ActiveLabel == << "\t", "A", "c", "t", "i", "v", "e", ":", " " >>

VisibleLabel == << "\t", "V", "i", "s", "i", "b", "l", "e", ":", " " >>

OtherLabel == << "\t", "O", "t", "h", "e", "r", ":", " " >>

\* The writes to the buffer, data.go:41-59.
Render(s, b) ==
    TimeFormat(s.Time) \o << "\n" >>
        \o (IF b.active # << >>
            THEN ActiveLabel \o WinfoPrint(Info(s.Windows[b.active[1]].Name)) \o << "\n" >>
            ELSE EmptyString)
        \o (IF Len(b.visible) > 0
            THEN VisibleLabel \o RenderEntries(s, b.visible) \o << "\n" >>
            ELSE EmptyString)
        \o (IF Len(b.other) > 0
            THEN OtherLabel \o RenderEntries(s, b.other) \o << "\n" >>
            ELSE EmptyString)

\* The locals of Print after the loop.
Buckets(s) == Classify(s, 1, NoBuckets)

\* The string Print returns.
SnapshotPrint(s) == Render(s, Buckets(s))

(***************************************************************************)
(* Window names given to Info: every concatenation of at most MaxChunks    *)
(* pieces.  The pieces are the two application names Info knows, the two   *)
(* separators, and the space and the hyphen the separators are made of.    *)
(***************************************************************************)
Chunks ==
    { Slack,
      GoogleChrome,
      defaultWindowTitleSeparator,
      microsoftEdgeWindowTitleSeparator,
      << " " >>,
      << "-" >> }

RECURSIVE NamesOf(_)
NamesOf(k) ==
    IF k = 0 THEN { EmptyString }
    ELSE LET shorter == NamesOf(k - 1) IN
         shorter \cup { n \o c : n \in shorter, c \in Chunks }

\* The names of the examples: "Sourcegraph - Search - Google Chrome",
\* "My Page <U+200E>- Microsoft Edge", "Slack - general - My Workspace",
\* "report.txt - Notepad", "Desktop", and two names whose leading text
\* differs from "Slack" by case, or by a leading tab, only.
ExampleNames ==
    {
      << "S", "o", "u", "r", "c", "e", "g", "r", "a", "p", "h", " ", "-",
         " ", "S", "e", "a", "r", "c", "h", " ", "-", " ", "G", "o", "o",
         "g", "l", "e", " ", "C", "h", "r", "o", "m", "e" >>,
      << "M", "y", " ", "P", "a", "g", "e", " ", "xE2", "x80", "x8E", "-",
         " ", "M", "i", "c", "r", "o", "s", "o", "f", "t", " ", "E", "d",
         "g", "e" >>,
      << "S", "l", "a", "c", "k", " ", "-", " ", "g", "e", "n", "e", "r",
         "a", "l", " ", "-", " ", "M", "y", " ", "W", "o", "r", "k", "s",
         "p", "a", "c", "e" >>,
      << "r", "e", "p", "o", "r", "t", ".", "t", "x", "t", " ", "-", " ",
         "N", "o", "t", "e", "p", "a", "d" >>,
      << "D", "e", "s", "k", "t", "o", "p" >>,
      << "s", "l", "a", "c", "k", " ", "-", " ", "g", "e", "n", "e", "r",
         "a", "l", " ", "-", " ", "M", "y", " ", "W", "o", "r", "k", "s",
         "p", "a", "c", "e" >>,
      << "\t", "S", "l", "a", "c", "k", " ", "-", " ", "g", "e", "n", "e",
         "r", "a", "l" >> }

Names == NamesOf(MaxChunks) \cup ExampleNames

(***************************************************************************)
(* Windows and snapshots given to the Window predicates and to Print.      *)
(* Window IDs include -1, the ID the capture script gives every window;    *)
(* 0 is an ID no window has.                                               *)
(***************************************************************************)
Desktops == (0 - MaxDesktop)..MaxDesktop

WindowIDs == {-1, 1, 2}

ReferredIDs == WindowIDs \cup {0}

\* Four windows: two that share the ID -1 and differ by name, and two more.
PrintedWindows ==
    { [ID |-> -1, Desktop |-> 0, Name |-> << "a", " ", "-", " ", "b" >>],
      [ID |-> -1, Desktop |-> 0, Name |-> << "c" >>],
      [ID |-> 1, Desktop |-> 0, Name |-> << "d", " ", "-", " ", "e" >> \o defaultWindowTitleSeparator \o GoogleChrome],
      [ID |-> 2, Desktop |-> 1, Name |-> Slack \o << " ", "-", " ", "f" >>] }

\* Tue Nov 3 09:05:00 -0700 MST 2015
Times ==
    { [Weekday |-> 2, Month |-> 11, Day |-> 3, Hour |-> 9, Minute |-> 5, Second |-> 0,
       Year |-> 2015, Offset |-> -25200, Zone |-> << "M", "S", "T" >>] }

RECURSIVE SeqsUpTo(_, _)
SeqsUpTo(S, k) ==
    IF k = 0 THEN { << >> }
    ELSE LET shorter == SeqsUpTo(S, k - 1) IN
         shorter \cup { Append(q, x) : q \in shorter, x \in S }

Snapshots ==
    [Time : Times,
     Windows : SeqsUpTo(PrintedWindows, MaxWindows),
     Active : ReferredIDs,
     Visible : SeqsUpTo(ReferredIDs, MaxVisible)]

NoWinfo == Winfo(EmptyString, EmptyString, EmptyString)

NoWindow == [ID |-> 0, Desktop |-> 0, Name |-> EmptyString]

NoSnapshot ==
    [Time |-> CHOOSE t \in Times : TRUE,
     Windows |-> << >>, Active |-> 0, Visible |-> << >>]

VARIABLES
    pc,        \* position of the caller
    name,      \* Info: Window.Name
    winfo,     \* Info: the result of w.Info()
    retitle,   \* Info: the result of Info on a window named winfo.Title
    window,    \* IsSticky, IsOnDesktop: the receiver
    desktop,   \* IsOnDesktop: the argument
    sticky,    \* the result of window.IsSticky()
    onDesktop, \* the result of window.IsOnDesktop(desktop)
    snapshot,  \* Print: the receiver
    buckets,   \* Print: the locals active, visible and other after the loop
    out        \* Print: the string returned

infoVars == << name, winfo, retitle >>

desktopVars == << window, desktop, sticky, onDesktop >>

printVars == << snapshot, buckets, out >>

vars == << pc, infoVars, desktopVars, printVars >>

InfoIdle == name = EmptyString /\ winfo = NoWinfo /\ retitle = NoWinfo

DesktopIdle == window = NoWindow /\ desktop = 0 /\ sticky = FALSE /\ onDesktop = FALSE

PrintIdle == snapshot = NoSnapshot /\ buckets = NoBuckets /\ out = EmptyString

(***************************************************************************)
(* Info on every name of Names, and again on the Title it returned.        *)
(***************************************************************************)
InfoInit ==
    /\ pc = "start"
    /\ name \in Names
    /\ winfo = NoWinfo
    /\ retitle = NoWinfo
    /\ DesktopIdle
    /\ PrintIdle

\* w.Info()
CallInfo ==
    /\ pc = "start"
    /\ winfo' = Info(name)
    /\ pc' = "parsed"
    /\ UNCHANGED << name, retitle, desktopVars, printVars >>

\* (&Window{Name: w.Info().Title}).Info()
CallInfoOnTitle ==
    /\ pc = "parsed"
    /\ retitle' = Info(winfo.Title)
    /\ pc' = "reparsed"
    /\ UNCHANGED << name, winfo, desktopVars, printVars >>

InfoNext == CallInfo \/ CallInfoOnTitle

SpecInfo == InfoInit /\ [][InfoNext]_vars

(***************************************************************************)
(* IsSticky and IsOnDesktop on every window and desktop of Desktops.       *)
(***************************************************************************)
DesktopInit ==
    /\ pc = "start"
    /\ window \in [ID : {1}, Desktop : Desktops, Name : {Slack}]
    /\ desktop \in Desktops
    /\ sticky = FALSE
    /\ onDesktop = FALSE
    /\ InfoIdle
    /\ PrintIdle

\* window.IsSticky()
CallIsSticky ==
    /\ pc = "start"
    /\ sticky' = IsSticky(window)
    /\ pc' = "stickyKnown"
    /\ UNCHANGED << window, desktop, onDesktop, infoVars, printVars >>

\* window.IsOnDesktop(desktop)
CallIsOnDesktop ==
    /\ pc = "stickyKnown"
    /\ onDesktop' = IsOnDesktop(window, desktop)
    /\ pc' = "desktopKnown"
    /\ UNCHANGED << window, desktop, sticky, infoVars, printVars >>

DesktopNext == CallIsSticky \/ CallIsOnDesktop

SpecDesktop == DesktopInit /\ [][DesktopNext]_vars

(***************************************************************************)
(* Print on every snapshot of Snapshots.                                   *)
(***************************************************************************)
PrintInit ==
    /\ pc = "start"
    /\ snapshot \in Snapshots
    /\ buckets = NoBuckets
    /\ out = EmptyString
    /\ InfoIdle
    /\ DesktopIdle

\* snapshot.Print()
CallPrint ==
    /\ pc = "start"
    /\ buckets' = Buckets(snapshot)
    /\ out' = SnapshotPrint(snapshot)
    /\ pc' = "printed"
    /\ UNCHANGED << snapshot, infoVars, desktopVars >>

PrintNext == CallPrint

SpecPrint == PrintInit /\ [][PrintNext]_vars

(***************************************************************************)
(* Vocabulary of the properties of Info.  Occurrences and trimming are     *)
(* stated here by what they mean, not by the scans that compute them.      *)
(***************************************************************************)

\* sep occurs in s at the 0-based offset i.
OccursAt(s, sep, i) ==
    /\ i >= 0
    /\ i + Len(sep) <= Len(s)
    /\ \A k \in 1..Len(sep) : s[i + k] = sep[k]

\* The offsets at which sep occurs in s.
Occurrences(s, sep) == { i \in 0..(Len(s) - Len(sep)) : OccursAt(s, sep, i) }

Occurs(s, sep) == Occurrences(s, sep) # {}

FirstOccurrence(s, sep) ==
    LET occ == Occurrences(s, sep) IN CHOOSE i \in occ : \A j \in occ : i <= j

LastOccurrence(s, sep) ==
    LET occ == Occurrences(s, sep) IN CHOOSE i \in occ : \A j \in occ : j <= i

\* The text before, and after, the occurrence of sep at offset i.
Before(s, i) == SubSeq(s, 1, i)

After(s, sep, i) == SubSeq(s, i + Len(sep) + 1, Len(s))

WhiteSpace == {" ", "\t", "\n", "\r"}

\* t has no leading and no trailing white space.
Trimmed(t) == t = << >> \/ (t[1] \notin WhiteSpace /\ t[Len(t)] \notin WhiteSpace)

\* t is s without its surrounding white space.
IsTrimOf(t, s) ==
    /\ Trimmed(t)
    /\ \E i \in 0..(Len(s) - Len(t)) :
          /\ \A k \in 1..i : s[k] \in WhiteSpace
          /\ \A k \in (i + Len(t) + 1)..Len(s) : s[k] \in WhiteSpace
          /\ \A k \in 1..Len(t) : s[i + k] = t[k]

Segments(n) == Split(n, defaultWindowTitleSeparator)

\* Rule 1 takes the name: at least two segments, the last one trimming to
\* "Google Chrome".
TakenByRule1(n) ==
    LET f == Segments(n) IN
    /\ Len(f) >= 2
    /\ IsTrimOf(GoogleChrome, f[Len(f)])

HasPrimary(n) == Occurs(n, defaultWindowTitleSeparator)

HasSecondary(n) == Occurs(n, microsoftEdgeWindowTitleSeparator)

\* The text of n before the first primary separator.
LeadingText(n) == Before(n, FirstOccurrence(n, defaultWindowTitleSeparator))

\* w is n split at the last occurrence of sep: App after it, Title before
\* it, both trimmed, no SubApp.
IsLastSplit(w, n, sep) ==
    LET i == LastOccurrence(n, sep) IN
    /\ IsTrimOf(w.App, After(n, sep, i))
    /\ IsTrimOf(w.Title, Before(n, i))
    /\ w.SubApp = << >>

\* w is n split at the first occurrence of sep: App before it, Title after
\* it, both trimmed, no SubApp.
IsFirstSplit(w, n, sep) ==
    LET i == FirstOccurrence(n, sep) IN
    /\ IsTrimOf(w.App, Before(n, i))
    /\ IsTrimOf(w.Title, After(n, sep, i))
    /\ w.SubApp = << >>

Rule4Case(n) ==
    /\ HasPrimary(n)
    /\ ~TakenByRule1(n)
    /\ ~HasSecondary(n)
    /\ LeadingText(n) # Slack

\* C1: a name with " - " that rule 1 does not take, without the secondary
\* separator and not led by exactly "Slack", is split at the LAST " - ":
\* App is the trimmed text after it, Title the trimmed text before it, and
\* SubApp is empty.
C1_DefaultSplitsAtLastSeparator ==
    (pc # "start" /\ Rule4Case(name))
        => IsLastSplit(winfo, name, defaultWindowTitleSeparator)

\* Rule 4 has acted on a name with two different occurrences of " - " and
\* text on both sides of the last one.
C1_Witness ==
    /\ pc = "parsed"
    /\ Rule4Case(name)
    /\ FirstOccurrence(name, defaultWindowTitleSeparator)
           # LastOccurrence(name, defaultWindowTitleSeparator)
    /\ winfo.App # << >>
    /\ winfo.Title # << >>

\* C2: a name with at least two " - "-segments whose last segment trims to
\* "Google Chrome" gives App = "Google Chrome", SubApp = the trimmed
\* second-to-last segment and Title = the segments before those two joined
\* again with " - " (empty when there are exactly two segments); this also
\* when the name contains the secondary separator or begins with "Slack - ".
C2_ChromeRuleWinsFirst ==
    (pc # "start" /\ TakenByRule1(name)) =>
        LET f == Segments(name)
            k == Len(f)
        IN /\ winfo.App = GoogleChrome
           /\ IsTrimOf(winfo.SubApp, f[k - 1])
           /\ IF k = 2
              THEN /\ winfo.Title = << >>
                   /\ name = f[1] \o defaultWindowTitleSeparator \o f[2]
              ELSE name = winfo.Title \o defaultWindowTitleSeparator \o f[k - 1]
                              \o defaultWindowTitleSeparator \o f[k]

\* Rule 1 has acted on a name of three segments or more that also contains
\* the secondary separator and begins with "Slack - ".
C2_Witness ==
    /\ pc = "parsed"
    /\ TakenByRule1(name)
    /\ Len(Segments(name)) >= 3
    /\ HasSecondary(name)
    /\ LeadingText(name) = Slack
    /\ winfo.Title # << >>

\* C3: for a name with " - " that rules 1 and 2 do not take, rule 3 applies
\* exactly when the text before the FIRST " - " is the string "Slack": then
\* App = "Slack", Title = the trimmed text after that first occurrence and
\* SubApp is empty; with any other leading text (also one that differs from
\* "Slack" by white space or case only) the result is rule 4's.
C3_SlackRuleOnExactLeadingText ==
    (pc # "start" /\ HasPrimary(name) /\ ~TakenByRule1(name) /\ ~HasSecondary(name)) =>
        IF LeadingText(name) = Slack
        THEN /\ winfo.App = Slack
             /\ IsFirstSplit(winfo, name, defaultWindowTitleSeparator)
        ELSE IsLastSplit(winfo, name, defaultWindowTitleSeparator)

\* Rule 3 has acted and a later " - " stayed inside Title.
C3_Witness ==
    /\ pc = "parsed"
    /\ HasPrimary(name)
    /\ ~TakenByRule1(name)
    /\ ~HasSecondary(name)
    /\ LeadingText(name) = Slack
    /\ winfo.App = Slack
    /\ HasPrimary(winfo.Title)

\* C4: a name with the secondary separator that rule 1 does not take is
\* split at the LAST secondary separator: App is the trimmed text after it,
\* Title the trimmed text before it, SubApp is empty; this also when the
\* name contains " - " or begins with "Slack - ".
C4_SecondarySeparatorSplitsAtLast ==
    (pc # "start" /\ HasSecondary(name) /\ ~TakenByRule1(name))
        => IsLastSplit(winfo, name, microsoftEdgeWindowTitleSeparator)

\* Rule 2 has acted on a name that begins with "Slack - " and has two
\* different occurrences of the secondary separator.
C4_Witness ==
    /\ pc = "parsed"
    /\ HasSecondary(name)
    /\ ~TakenByRule1(name)
    /\ HasPrimary(name)
    /\ LeadingText(name) = Slack
    /\ FirstOccurrence(name, microsoftEdgeWindowTitleSeparator)
           # LastOccurrence(name, microsoftEdgeWindowTitleSeparator)
    /\ winfo.App # << >>

IsWinfo(w) ==
    /\ DOMAIN w = {"App", "SubApp", "Title"}
    /\ \A f \in DOMAIN w : DOMAIN w[f] = 1..Len(w[f])

\* C5: Info returns a Winfo for every name; a name with neither separator
\* gives Title = the name unchanged and empty App and SubApp; and when the
\* Title Info returned contains no separator, Info on that Title returns it
\* again as Title, with empty App and SubApp.
C5_FallbackAndIdempotence ==
    /\ pc # "start" => IsWinfo(winfo)
    /\ (pc # "start" /\ ~HasPrimary(name) /\ ~HasSecondary(name))
           => winfo = [App |-> << >>, SubApp |-> << >>, Title |-> name]
    /\ (pc = "reparsed" /\ ~HasPrimary(winfo.Title) /\ ~HasSecondary(winfo.Title))
           => retitle = [App |-> << >>, SubApp |-> << >>, Title |-> winfo.Title]

\* Info split a name, and was applied again to the non-empty Title it
\* returned, which had no separator left.
C5_Witness ==
    /\ pc = "reparsed"
    /\ HasPrimary(name)
    /\ winfo.App # << >>
    /\ winfo.Title # << >>
    /\ ~HasPrimary(winfo.Title)
    /\ ~HasSecondary(winfo.Title)

\* C9, as stated: for every name with a separator, App, SubApp and Title
\* have no leading and no trailing white space.
C9_AllFieldsTrimmed ==
    (pc # "start" /\ (HasPrimary(name) \/ HasSecondary(name))) =>
        /\ Trimmed(winfo.App)
        /\ Trimmed(winfo.SubApp)
        /\ Trimmed(winfo.Title)

\* C9, amended: for every name with a separator, App and SubApp have no
\* leading and no trailing white space, and so has Title unless rule 1 took
\* the name (rule 1 joins the leading segments without trimming them).
C9_FieldsTrimmedButChromeTitle ==
    (pc # "start" /\ (HasPrimary(name) \/ HasSecondary(name))) =>
        /\ Trimmed(winfo.App)
        /\ Trimmed(winfo.SubApp)
        /\ ~TakenByRule1(name) => Trimmed(winfo.Title)

\* Info has split a name that begins and ends with white space, and
\* returned a non-empty App and a non-empty Title.
C9_Witness ==
    /\ pc = "parsed"
    /\ HasPrimary(name)
    /\ ~TakenByRule1(name)
    /\ name[1] \in WhiteSpace
    /\ name[Len(name)] \in WhiteSpace
    /\ winfo.App # << >>
    /\ winfo.Title # << >>

\* C6: IsSticky() is true iff Desktop = -1, and IsOnDesktop(d) is true iff
\* Desktop = -1 or Desktop = d, for every window and every d (also d = -1
\* and other negative d).
C6_StickyAndOnDesktop ==
    /\ pc \in {"stickyKnown", "desktopKnown"} => (sticky <=> window.Desktop = -1)
    /\ pc = "desktopKnown"
           => (onDesktop <=> (window.Desktop = -1 \/ window.Desktop = desktop))

\* IsOnDesktop(-1) has answered false for a window that is not sticky.
C6_Witness ==
    /\ pc = "desktopKnown"
    /\ window.Desktop # -1
    /\ desktop = -1
    /\ ~sticky
    /\ ~onDesktop

(***************************************************************************)
(* Vocabulary of the properties of Print.                                  *)
(***************************************************************************)
WindowCount == Len(snapshot.Windows)

IdOf(i) == snapshot.Windows[i].ID

VisibleIDs == { snapshot.Visible[j] : j \in 1..Len(snapshot.Visible) }

\* The positions of the windows whose ID is the active ID.
ActivePositions == { i \in 1..WindowCount : IdOf(i) = snapshot.Active }

\* How often position i is in the sequence q.
Times_In(q, i) == Cardinality({ k \in 1..Len(q) : q[k] = i })

StrictlyIncreasing(q) == \A k \in 1..(Len(q) - 1) : q[k] < q[k + 1]

DistinctIDs == \A i, j \in 1..WindowCount : i # j => IdOf(i) # IdOf(j)

\* How often the byte c is in the string t.
CountByte(t, c) == Cardinality({ k \in 1..Len(t) : t[k] = c })

\* C7: when the window IDs are pairwise distinct, every window is in
\* exactly one bucket: active if its ID is Active, visible if its ID is in
\* Visible and is not Active, other if neither; a window is in the visible
\* bucket once however often its ID is in Visible, and the visible and the
\* other bucket keep the order of Windows.
C7_PartitionOfDistinctIDs ==
    (pc = "printed" /\ DistinctIDs) =>
        /\ \A i \in 1..WindowCount :
              /\ Times_In(buckets.active, i) = (IF IdOf(i) = snapshot.Active THEN 1 ELSE 0)
              /\ Times_In(buckets.visible, i)
                     = (IF IdOf(i) # snapshot.Active /\ IdOf(i) \in VisibleIDs THEN 1 ELSE 0)
              /\ Times_In(buckets.other, i)
                     = (IF IdOf(i) # snapshot.Active /\ IdOf(i) \notin VisibleIDs THEN 1 ELSE 0)
        /\ \A q \in {buckets.active, buckets.visible, buckets.other} :
              \A k \in 1..Len(q) : q[k] \in 1..WindowCount
        /\ StrictlyIncreasing(buckets.visible)
        /\ StrictlyIncreasing(buckets.other)

\* Print has partitioned three windows of distinct IDs into one active, one
\* visible whose ID is twice in Visible, and one other.
C7_Witness ==
    /\ pc = "printed"
    /\ DistinctIDs
    /\ WindowCount = 3
    /\ Len(buckets.active) = 1
    /\ Len(buckets.visible) = 1
    /\ Len(buckets.other) = 1
    /\ Len(snapshot.Visible) = 2
    /\ snapshot.Visible[1] = snapshot.Visible[2]

\* "[App|SubApp|Title]" of the window at position i.
Bracketed(i) ==
    LET w == Info(snapshot.Windows[i].Name) IN
    << "[" >> \o w.App \o << "|" >> \o w.SubApp \o << "|" >> \o w.Title \o << "]" >>

\* The entries of the positions q, each followed by ", ".
RECURSIVE Listed(_)
Listed(q) ==
    IF q = << >> THEN << >>
    ELSE Bracketed(Head(q)) \o << ",", " " >> \o Listed(Tail(q))

\* q without its elements equal to x.
RECURSIVE Without(_, _)
Without(q, x) ==
    IF q = << >> THEN << >>
    ELSE IF Head(q) = x THEN Without(Tail(q), x)
    ELSE << Head(q) >> \o Without(Tail(q), x)

MatchesNoWindow(id) == \A i \in 1..WindowCount : IdOf(i) # id

\* C8: the output is the timestamp line, then an Active line iff some
\* window has the active ID, a Visible line iff the visible bucket is not
\* empty, an Other line iff the other bucket is not empty, in that order,
\* each window as "[App|SubApp|Title]" of its Info, with ", " after every
\* entry of the Visible and Other lines; and a Visible ID or an Active ID
\* that no window has is ignored: the output is that of the snapshot
\* without that Visible ID, or with any other active ID that no window has.
C8_RenderedSections ==
    pc = "printed" =>
        /\ out = TimeFormat(snapshot.Time) \o << "\n" >>
                   \o (IF ActivePositions # {}
                       THEN << "\t", "A", "c", "t", "i", "v", "e", ":", " " >>
                                \o Bracketed(buckets.active[1]) \o << "\n" >>
                       ELSE << >>)
                   \o (IF buckets.visible # << >>
                       THEN << "\t", "V", "i", "s", "i", "b", "l", "e", ":", " " >>
                                \o Listed(buckets.visible) \o << "\n" >>
                       ELSE << >>)
                   \o (IF buckets.other # << >>
                       THEN << "\t", "O", "t", "h", "e", "r", ":", " " >>
                                \o Listed(buckets.other) \o << "\n" >>
                       ELSE << >>)
        /\ \A v \in VisibleIDs :
              MatchesNoWindow(v)
                  => out = SnapshotPrint([snapshot EXCEPT !.Visible = Without(@, v)])
        /\ MatchesNoWindow(snapshot.Active) =>
              \A a \in ReferredIDs :
                  MatchesNoWindow(a) => out = SnapshotPrint([snapshot EXCEPT !.Active = a])

\* Print has rendered all three sections for a snapshot whose Visible holds
\* an ID that no window has.
C8_Witness ==
    /\ pc = "printed"
    /\ buckets.active # << >>
    /\ buckets.visible # << >>
    /\ buckets.other # << >>
    /\ \E v \in VisibleIDs : MatchesNoWindow(v)

\* C10: for every snapshot, also with several windows of one ID, at most
\* one window is on the Active line and no window is rendered more than
\* once; when several windows have the active ID, the last of them is the
\* one rendered as Active and the earlier ones are in no section, so that
\* fewer windows than len(Windows) are rendered.
C10_RepeatedActiveID ==
    pc = "printed" =>
        /\ Len(buckets.active) <= 1
        /\ \A i \in 1..WindowCount :
              Times_In(buckets.active, i) + Times_In(buckets.visible, i)
                  + Times_In(buckets.other, i) <= 1
        /\ ActivePositions # {} =>
              /\ buckets.active = << CHOOSE i \in ActivePositions :
                                         \A j \in ActivePositions : j <= i >>
              /\ \A i \in ActivePositions :
                    Times_In(buckets.visible, i) + Times_In(buckets.other, i) = 0
              /\ CountByte(out, "[") = WindowCount - (Cardinality(ActivePositions) - 1)
        /\ ActivePositions = {} => CountByte(out, "[") = WindowCount

\* Print has rendered a snapshot of three windows, two of which have the
\* active ID -1 and the first of which is also in Visible.
C10_Witness ==
    /\ pc = "printed"
    /\ WindowCount = 3
    /\ snapshot.Active = -1
    /\ Cardinality(ActivePositions) = 2
    /\ -1 \in VisibleIDs
    /\ CountByte(out, "[") = 2

====
